---- MODULE Spec2Model ----
(***************************************************************************)
(* A model of scvi/models/vae.py: the VAE family (VAE, LDVAE,              *)
(* MeanVarianceVAE) and LogNormalPoissonVAE.                               *)
(*                                                                         *)
(* A tensor is a record [k, shape, v]: k is "tensor" or "none", shape is   *)
(* the sequence of its dimensions and v is its value.  The dispersion      *)
(* tensors carry numbers (nested sequences of integers; exponentials are   *)
(* in thousandths), the encoder and decoder outputs carry a symbolic name, *)
(* and the losses carry a linear form over the densities that the external *)
(* likelihood and distribution functions return.                           *)
(***************************************************************************)
EXTENDS Integers, Sequences, FiniteSets, TLC

VARIABLES self, rng, cudnn_benchmark, last

vars == <<self, rng, cudnn_benchmark, last>>

\* ---------------------------------------------------------------- bounds
MaxB == 2          \* cells in a minibatch
MaxSamples == 2    \* largest n_samples a caller passes
MaxRaw == 1        \* raw dispersion values range over -MaxRaw..MaxRaw
NInput == 2        \* n_input (genes)
NLatent == 2       \* n_latent
NBatch == 2        \* n_batch
NLabels == 2       \* n_labels

RawVals == (-MaxRaw)..MaxRaw
BatchSizes == 1..MaxB
SampleCounts == (-1)..MaxSamples

\* ---------------------------------------------------------------- shapes
BadShape == <<-1>>

Max(a, b) == IF a >= b THEN a ELSE b

Pad(s, n) == [i \in 1..n |-> IF i <= n - Len(s) THEN 1 ELSE s[i - (n - Len(s))]]

\* torch broadcasting of two shapes (right-aligned; equal or 1)
Broadcast(s1, s2) ==
  IF s1 = BadShape \/ s2 = BadShape THEN BadShape
  ELSE LET n == Max(Len(s1), Len(s2))
           p1 == Pad(s1, n)
           p2 == Pad(s2, n)
       IN IF \A i \in 1..n : p1[i] = p2[i] \/ p1[i] = 1 \/ p2[i] = 1
          THEN [i \in 1..n |-> Max(p1[i], p2[i])]
          ELSE BadShape

RemoveAt(s, i) == [j \in 1..(Len(s) - 1) |-> IF j < i THEN s[j] ELSE s[j + 1]]

\* Tensor.sum(dim=d) on a shape; d is 0-based, negative counts from the end;
\* a 0-dim tensor accepts dim -1 and 0 and stays 0-dim
SumDim(s, d) ==
  IF s = BadShape THEN BadShape
  ELSE IF Len(s) = 0 THEN (IF d \in {-1, 0} THEN s ELSE BadShape)
  ELSE LET i == IF d < 0 THEN Len(s) + d + 1 ELSE d + 1
       IN IF i \in 1..Len(s) THEN RemoveAt(s, i) ELSE BadShape

\* Tensor.unsqueeze(0).expand([n] + list(size))
UnsqueezeExpandSkipped(s, n) == s
UnsqueezeExpand(s, n) == <<n>> \o s

ButLast(s) == SubSeq(s, 1, Len(s) - 1)

\* --------------------------------------------------------------- tensors
None == [k |-> "none", shape |-> <<>>, v |-> "None"]

T(shape, v) == [k |-> "tensor", shape |-> shape, v |-> v]

\* the set of the entries of a nested sequence of the given rank
RECURSIVE Entries(_, _)
Entries(v, rank) ==
  IF rank = 0 THEN {v} ELSE UNION {Entries(v[i], rank - 1) : i \in DOMAIN v}

\* torch.exp on one entry, in thousandths: e^r * 1000, truncated
ExpScale == 1000
EulerMilli == 2718
ExpNoExp(r) == r * ExpScale
RECURSIVE Exp(_)
Exp(r) ==
  IF r = 0 THEN ExpScale
  ELSE IF r > 0 THEN (Exp(r - 1) * EulerMilli) \div ExpScale
  ELSE (Exp(r + 1) * ExpScale) \div EulerMilli

\* torch.exp(t)
RECURSIVE ExpEntries(_, _)
ExpEntries(v, rank) ==
  IF rank = 0 THEN Exp(v) ELSE [i \in DOMAIN v |-> ExpEntries(v[i], rank - 1)]

TorchExp(t) == T(t.shape, ExpEntries(t.v, Len(t.shape)))

\* torch.log(1 + t): the value is tagged, the shape is kept
Log1pSkipped(t) == t
Log1p(t) == T(t.shape, <<"log1p">> \o t.v)

\* ---------------------------------------------------------- linear forms
\* the densities returned by the external likelihood / distribution code
Terms == {"log_px", "kl_z", "kl_l", "log_pz", "log_qz_x", "log_pl", "log_ql_x"}

LFTerm(t) == [u \in Terms |-> IF u = t THEN 1 ELSE 0]
LFAdd(a, b) == [u \in Terms |-> a[u] + b[u]]
LFNeg(a) == [u \in Terms |-> 0 - a[u]]
LFSub(a, b) == LFAdd(a, LFNeg(b))

TAdd(a, b) == T(Broadcast(a.shape, b.shape), LFAdd(a.v, b.v))
TSub(a, b) == T(Broadcast(a.shape, b.shape), LFSub(a.v, b.v))
TNeg(a) == T(a.shape, LFNeg(a.v))
TSum(a, d) == T(SumDim(a.shape, d), a.v)

\* --------------------------------------------------- external collaborators
\* value of entry (i, j) of a tensor drawn by torch.randn or produced by a
\* network; a selects the draw, the entries of one tensor differ by column
RawPattern(a, i, j) == ((a + MaxRaw + i + 2 * j) % (2 * MaxRaw + 1)) - MaxRaw

RandnVector(n, a) == T(<<n>>, [g \in 1..n |-> RawPattern(a, 0, g)])
RandnMatrix(n, m, a) ==
  T(<<n, m>>, [g \in 1..n |-> [j \in 1..m |-> RawPattern(a, g, j)]])

\* leading dimensions of a tensor as a nest of copies of one (B, n) matrix
RECURSIVE Nest(_, _)
Nest(lead, mat) ==
  IF Len(lead) = 0 THEN mat ELSE [i \in 1..Head(lead) |-> Nest(Tail(lead), mat)]

RECURSIVE SumSeq(_)
SumSeq(q) == IF Len(q) = 0 THEN 0 ELSE Head(q) + SumSeq(Tail(q))

\* scvi.models.utils.one_hot(index, n_cat): index has shape (B, 1)
one_hot(index, n_cat) ==
  T(<<index.shape[1], n_cat>>,
    [c \in 1..index.shape[1] |->
       [j \in 1..n_cat |-> IF index.v[c][1] = j - 1 THEN 1 ELSE 0]])

\* torch.nn.functional.linear(input, weight) = input . weight^T
FLinear(input, weight) ==
  T(<<input.shape[1], weight.shape[1]>>,
    [c \in 1..input.shape[1] |->
       [g \in 1..weight.shape[1] |->
          SumSeq([j \in 1..weight.shape[2] |-> input.v[c][j] * weight.v[g][j]])]])

\* Encoder.forward(x, y): posterior mean, variance and a reparameterized
\* sample; a full covariance is a matrix per cell
EncoderForward(name, x_, n_output, full_cov) ==
  LET B == x_.shape[1] IN
  [m |-> T(<<B, n_output>>, <<name, "mean">> \o x_.v),
   v |-> T(IF full_cov THEN <<B, n_output, n_output>> ELSE <<B, n_output>>,
           <<name, "var">> \o x_.v),
   s |-> T(<<B, n_output>>, <<name, "rsample">> \o x_.v)]

\* Encoder.sample(mean, var): a fresh draw shaped like the mean
EncoderSample(name, m, v) == T(m.shape, <<name, "sample">> \o m.v)

\* Encoder.distrib(mean, var): Normal for a diagonal covariance (one density
\* per coordinate), MultivariateNormal otherwise (one density per cell)
EncoderDistrib(full_cov, m, v) ==
  IF full_cov
  THEN [family |-> "MultivariateNormal",
        batch_shape |-> Broadcast(ButLast(m.shape), ButLast(ButLast(v.shape))),
        event |-> 1]
  ELSE [family |-> "Normal", batch_shape |-> Broadcast(m.shape, v.shape),
        event |-> 0]

\* torch.distributions.Normal(loc, scale)
Normal(m, sd) ==
  [family |-> "Normal", batch_shape |-> Broadcast(m.shape, sd.shape), event |-> 0]

\* Distribution.log_prob(value)
LogProb(d, value, term) ==
  T(IF d.event = 1 THEN Broadcast(d.batch_shape, ButLast(value.shape))
    ELSE Broadcast(d.batch_shape, value.shape), LFTerm(term))

\* torch.distributions.kl_divergence(p, q)
kl(p, q, term) == T(Broadcast(p.batch_shape, q.batch_shape), LFTerm(term))

\* DecoderSCVI / LinearDecoderSCVI forward: scale, dispersion (only in the
\* 'gene-cell' mode), rate and dropout, one row per cell and sample
DecoderSCVI(dispersion, z, library, batch_index, y, a) ==
  LET lead == ButLast(z.shape)
      shape == lead \o <<NInput>>
      B == lead[Len(lead)]
  IN [px_scale |-> T(shape, <<"px_scale">> \o z.v),
      px_r |-> IF dispersion = "gene-cell"
               THEN T(shape, Nest(ButLast(lead), RandnMatrix(B, NInput, a).v))
               ELSE None,
      px_rate |-> T(shape, <<"px_rate">> \o z.v \o library.v),
      px_dropout |-> T(shape, <<"px_dropout">> \o z.v)]

\* DecoderPoisson forward: one rate per cell, sample and gene
DecoderPoisson(z, library, batch_index, y) ==
  T(ButLast(z.shape) \o <<NInput>>, <<"px_rate">> \o z.v \o library.v)

\* log_zinb_positive(x, mu, theta, pi): log-likelihood summed over genes
log_zinb_positive(x, mu, theta, pi) ==
  T(SumDim(Broadcast(Broadcast(x.shape, mu.shape),
                     Broadcast(theta.shape, pi.shape)), -1),
    LFTerm("log_px"))

\* log_nb_positive(x, mu, theta): log-likelihood summed over genes
log_nb_positive(x, mu, theta) ==
  T(SumDim(Broadcast(Broadcast(x.shape, mu.shape), theta.shape), -1),
    LFTerm("log_px"))

\* ------------------------------------------------------------ construction
Dispersions == {"gene", "gene-batch", "gene-label", "gene-cell"}
Likelihoods == {"zinb", "nb", "mse"}
NoAttr == [k |-> "noattr", shape |-> <<>>, v |-> "noattr"]

\* Module.parameters() of the three sub-networks, in registration order
z_encoder_parameters == <<"z_encoder.weight", "z_encoder.bias">>
l_encoder_parameters == <<"l_encoder.weight", "l_encoder.bias">>
decoder_parameters == <<"decoder.weight", "decoder.bias">>

AllParams ==
  {"z_encoder.weight", "z_encoder.bias", "l_encoder.weight", "l_encoder.bias",
   "decoder.weight", "decoder.bias", "px_r"}

\* requires_grad switched off by the caller after construction
FrozenChoices ==
  {{}, {"z_encoder.bias", "decoder.weight"}, {"l_encoder.weight", "px_r"}}

VAE__init__(cls, dispersion, log_variational, reconstruction_loss, full_cov, a) ==
  [cls |-> cls,
   dispersion |-> dispersion,
   n_latent |-> NLatent,
   log_variational |-> log_variational,
   reconstruction_loss |-> reconstruction_loss,
   n_batch |-> NBatch,
   n_labels |-> NLabels,
   px_r |-> IF dispersion = "gene" THEN RandnVector(NInput, a)
            ELSE IF dispersion = "gene-batch" THEN RandnMatrix(NInput, NBatch, a)
            ELSE IF dispersion = "gene-label" THEN RandnMatrix(NInput, NLabels, a)
            ELSE NoAttr,
   z_full_cov |-> full_cov,
   z_autoregressive |-> FALSE,
   decoder |-> "DecoderSCVI",
   frozen |-> {}]

LDVAE__init__(dispersion, log_variational, reconstruction_loss, a) ==
  [VAE__init__("LDVAE", dispersion, log_variational, reconstruction_loss, FALSE, a)
     EXCEPT !.decoder = "LinearDecoderSCVI"]

MeanVarianceVAE__init__(log_variational, reconstruction_loss, full_cov, a) ==
  VAE__init__("MeanVarianceVAE", "gene", log_variational, reconstruction_loss,
              full_cov, a)

LogNormalPoissonVAE__init__(log_variational, full_cov, autoregressive) ==
  [cls |-> "LogNormalPoissonVAE",
   dispersion |-> "noattr",
   n_latent |-> NLatent,
   log_variational |-> log_variational,
   reconstruction_loss |-> "noattr",
   n_batch |-> NBatch,
   n_labels |-> NLabels,
   px_r |-> NoAttr,
   z_full_cov |-> full_cov,
   z_autoregressive |-> autoregressive,
   decoder |-> "DecoderPoisson",
   frozen |-> {}]

Models ==
  {VAE__init__("VAE", d, lv, rl, fc, a) :
     d \in Dispersions, lv \in BOOLEAN, rl \in Likelihoods, fc \in BOOLEAN,
     a \in RawVals}
  \cup {LDVAE__init__(d, lv, rl, a) :
     d \in Dispersions, lv \in BOOLEAN, rl \in Likelihoods, a \in RawVals}
  \cup {MeanVarianceVAE__init__(lv, rl, fc, a) :
     lv \in BOOLEAN, rl \in Likelihoods, fc \in BOOLEAN, a \in RawVals}
  \cup {LogNormalPoissonVAE__init__(lv, fc, ar) :
     lv \in BOOLEAN, fc \in BOOLEAN, ar \in BOOLEAN}

\* ----------------------------------------------------------------- calls
\* what a method did: the exception it raised ("none" when it returned),
\* its return value and the calls it made, in order
Call(fn, mode, args) == [fn |-> fn, mode |-> mode, args |-> args]
Ok(ret, calls) == [exc |-> "none", ret |-> ret, calls |-> calls, locals |-> <<>>]
Raise(exc, calls) == [exc |-> exc, ret |-> None, calls |-> calls, locals |-> <<>>]

\* the caller's count matrix, batch indices and labels
Counts(B) == T(<<B, NInput>>, <<"x">>)
IndexTensor(B, idx) == T(<<B, 1>>, [c \in 1..B |-> <<idx[c]>>])

\* assert not self.z_full_cov: TRUE when the assertion passes
assert_skipped(s) == TRUE
assert_not_z_full_cov(s) == ~s.z_full_cov

\* the encoder part shared by the three inference methods: log-transform,
\* both encoders, the full-covariance assertion and the multi-sample
\* broadcast
Sampling(s, x, y, n_samples) ==
  LET x_ == IF s.log_variational THEN Log1p(x) ELSE x
      qz == EncoderForward("z_encoder", x_, s.n_latent, s.z_full_cov)
      ql == EncoderForward("l_encoder", x_, 1, FALSE)
      calls == <<Call("z_encoder", "", <<x_, y>>), Call("l_encoder", "", <<x_>>)>>
  IN IF n_samples > 1
     THEN IF ~assert_not_z_full_cov(s)
          THEN [exc |-> "AssertionError", calls |-> calls]
          ELSE LET qz_m == T(UnsqueezeExpand(qz.m.shape, n_samples), <<"expand">> \o qz.m.v)
                   qz_v == T(UnsqueezeExpand(qz.v.shape, n_samples), <<"expand">> \o qz.v.v)
                   ql_m == T(UnsqueezeExpand(ql.m.shape, n_samples), <<"expand">> \o ql.m.v)
                   ql_v == T(UnsqueezeExpand(ql.v.shape, n_samples), <<"expand">> \o ql.v.v)
               IN [exc |-> "none",
                   qz_m |-> qz_m, qz_v |-> qz_v,
                   z |-> EncoderSample("z_encoder", qz_m, qz_v),
                   ql_m |-> ql_m, ql_v |-> ql_v,
                   library |-> EncoderSample("l_encoder", ql_m, ql_v),
                   calls |-> calls \o <<Call("z_encoder.sample", "", <<qz_m, qz_v>>),
                                        Call("l_encoder.sample", "", <<ql_m, ql_v>>)>>]
     ELSE [exc |-> "none",
           qz_m |-> qz.m, qz_v |-> qz.v, z |-> qz.s,
           ql_m |-> ql.m, ql_v |-> ql.v, library |-> ql.s,
           calls |-> calls]

\* the raw dispersion chosen by the mode (VAE.inference, before torch.exp)
RawDispersionFirstColumn(s, dec, batch_index, y) ==
  IF s.dispersion = "gene-label"
  THEN FLinear(one_hot(IndexTensor(y.shape[1], [c \in 1..y.shape[1] |-> 0]), s.n_labels), s.px_r)
  ELSE IF s.dispersion = "gene-batch"
  THEN FLinear(one_hot(IndexTensor(batch_index.shape[1],
                                   [c \in 1..batch_index.shape[1] |-> 0]), s.n_batch), s.px_r)
  ELSE IF s.dispersion = "gene" THEN s.px_r
  ELSE dec.px_r
RawDispersion(s, dec, batch_index, y) ==
  IF s.dispersion = "gene-label" THEN FLinear(one_hot(y, s.n_labels), s.px_r)
  ELSE IF s.dispersion = "gene-batch" THEN FLinear(one_hot(batch_index, s.n_batch), s.px_r)
  ELSE IF s.dispersion = "gene" THEN s.px_r
  ELSE dec.px_r

InferenceReturn(px_scale, px_r, px_rate, px_dropout, q) ==
  [px_scale |-> px_scale, px_r |-> px_r, px_rate |-> px_rate,
   px_dropout |-> px_dropout, qz_m |-> q.qz_m, qz_v |-> q.qz_v, z |-> q.z,
   ql_m |-> q.ql_m, ql_v |-> q.ql_v, library |-> q.library]

\* the decoder call and the dispersion of VAE.inference, after the sampling q
VAE_inference_return(s, batch_index, y, q, dec) ==
  Ok(InferenceReturn(dec.px_scale, TorchExp(RawDispersion(s, dec, batch_index, y)),
                     dec.px_rate, dec.px_dropout, q),
     q.calls \o <<Call("decoder", s.dispersion, <<q.z, q.library, batch_index, y>>)>>)

VAE_inference_decode(s, batch_index, y, a, q) ==
  IF q.exc # "none" THEN Raise(q.exc, q.calls)
  ELSE VAE_inference_return(s, batch_index, y, q,
                            DecoderSCVI(s.dispersion, q.z, q.library, batch_index, y, a))

VAE_inference(s, x, batch_index, y, n_samples, a) ==
  VAE_inference_decode(s, batch_index, y, a, Sampling(s, x, y, n_samples))

\* px_r_net(nb_mean.view(-1, 1)).view(nb_mean.size()): one raw value per
\* entry of px_scale * library
px_r_net(nb_mean_shape, a) ==
  T(nb_mean_shape,
    Nest(ButLast(ButLast(nb_mean_shape)),
         RandnMatrix(nb_mean_shape[Len(nb_mean_shape) - 1], NInput, a).v))

MeanVarianceVAE_inference_return(s, batch_index, y, q, dec, raw) ==
  IF raw.shape # dec.px_scale.shape
  THEN Raise("AssertionError",
             q.calls \o <<Call("decoder", s.dispersion, <<q.z, q.library, batch_index, y>>)>>)
  ELSE Ok(InferenceReturn(dec.px_scale, TorchExp(raw), dec.px_rate, dec.px_dropout, q),
          q.calls \o <<Call("decoder", s.dispersion, <<q.z, q.library, batch_index, y>>)>>)

MeanVarianceVAE_inference_px_r(s, batch_index, y, a, q, dec) ==
  MeanVarianceVAE_inference_return(s, batch_index, y, q, dec,
      px_r_net(Broadcast(dec.px_scale.shape, q.library.shape), a))

MeanVarianceVAE_inference_decode(s, batch_index, y, a, q) ==
  IF q.exc # "none" THEN Raise(q.exc, q.calls)
  ELSE MeanVarianceVAE_inference_px_r(s, batch_index, y, a, q,
          DecoderSCVI(s.dispersion, q.z, q.library, batch_index, y, a))

MeanVarianceVAE_inference(s, x, batch_index, y, n_samples, a) ==
  MeanVarianceVAE_inference_decode(s, batch_index, y, a, Sampling(s, x, y, n_samples))

LogNormalPoissonVAE_inference_decode(batch_index, y, q) ==
  IF q.exc # "none" THEN Raise(q.exc, q.calls)
  ELSE Ok([px_rate |-> DecoderPoisson(q.z, q.library, batch_index, y),
           qz_m |-> q.qz_m, qz_v |-> q.qz_v, z |-> q.z,
           ql_m |-> q.ql_m, ql_v |-> q.ql_v, library |-> q.library],
          q.calls \o <<Call("decoder", "", <<q.z, q.library, batch_index, y>>)>>)

LogNormalPoissonVAE_inference(s, x, batch_index, y, n_samples) ==
  LogNormalPoissonVAE_inference_decode(batch_index, y, Sampling(s, x, y, n_samples))

\* self.inference(...): the method of the instance's class
inference(s, x, batch_index, y, n_samples, a) ==
  IF s.cls = "LogNormalPoissonVAE"
  THEN LogNormalPoissonVAE_inference(s, x, batch_index, y, n_samples)
  ELSE IF s.cls = "MeanVarianceVAE"
  THEN MeanVarianceVAE_inference(s, x, batch_index, y, n_samples, a)
  ELSE VAE_inference(s, x, batch_index, y, n_samples, a)

\* ---------------------------------------------------------------- losses
VAE_reconstruction_loss_validated(s, x, px_rate, px_r, px_dropout) ==
  IF s.reconstruction_loss = "nb"
  THEN Ok(TNeg(log_nb_positive(x, px_rate, px_r)),
          <<Call("log_nb_positive", "", <<x, px_rate, px_r>>)>>)
  ELSE Ok(TNeg(log_zinb_positive(x, px_rate, px_r, px_dropout)),
          <<Call("log_zinb_positive", "", <<x, px_rate, px_r, px_dropout>>)>>)
VAE_reconstruction_loss(s, x, px_rate, px_r, px_dropout) ==
  IF s.reconstruction_loss = "zinb"
  THEN Ok(TNeg(log_zinb_positive(x, px_rate, px_r, px_dropout)),
          <<Call("log_zinb_positive", "", <<x, px_rate, px_r, px_dropout>>)>>)
  ELSE IF s.reconstruction_loss = "nb"
  THEN Ok(TNeg(log_nb_positive(x, px_rate, px_r)),
          <<Call("log_nb_positive", "", <<x, px_rate, px_r>>)>>)
  ELSE Raise("UnboundLocalError", <<>>)

LogNormalPoissonVAE_reconstruction_loss(x, rate) ==
  LET rl == T(Broadcast(rate.shape, x.shape), LFNeg(LFTerm("log_px")))
      calls == <<Call("Poisson.log_prob", "", <<rate, x>>)>>
  IN IF rl.shape = BadShape THEN Raise("RuntimeError", calls)
     ELSE IF Len(rl.shape) # 2 THEN Raise("AssertionError", calls)
     ELSE Ok(TSum(rl, -1), calls)

VAE_get_prior_params(s) ==
  [mean |-> T(<<s.n_latent>>, <<"zeros">>),
   scale |-> IF s.z_full_cov THEN T(<<s.n_latent, s.n_latent>>, <<"eye">>)
             ELSE T(<<s.n_latent>>, <<"ones">>)]

LogNormalPoissonVAE_get_prior_params(s) ==
  [mean |-> T(<<s.n_latent>>, <<"zeros">>),
   scale |-> IF s.z_full_cov \/ s.z_autoregressive
             THEN T(<<s.n_latent, s.n_latent>>, <<"eye">>)
             ELSE T(<<s.n_latent>>, <<"ones">>)]

get_prior_params(s) ==
  IF s.cls = "LogNormalPoissonVAE" THEN LogNormalPoissonVAE_get_prior_params(s)
  ELSE VAE_get_prior_params(s)

\* self.z_encoder.distrib: the latent encoder was built with the model's
\* covariance structure
z_distrib(s, m, v) == EncoderDistrib(s.z_full_cov \/ s.z_autoregressive, m, v)

LocalMean(B) == T(<<B, 1>>, <<"local_l_mean">>)
LocalVar(B) == T(<<B, 1>>, <<"local_l_var">>)

\* the two Kullback-Leibler terms of forward, shared by both classes
KLTermsNoSum(s, r, local_l_mean, local_l_var) ==
  LET prior == get_prior_params(s)
  IN [z |-> kl(z_distrib(s, r.qz_m, r.qz_v), z_distrib(s, prior.mean, prior.scale), "kl_z"),
      l |-> TSum(kl(Normal(r.ql_m, r.ql_v), Normal(local_l_mean, local_l_var), "kl_l"), 1)]
KLTerms(s, r, local_l_mean, local_l_var) ==
  LET prior == get_prior_params(s)
      kl_divergence_z == kl(z_distrib(s, r.qz_m, r.qz_v),
                            z_distrib(s, prior.mean, prior.scale), "kl_z")
  IN [z |-> IF Len(kl_divergence_z.shape) = 2 THEN TSum(kl_divergence_z, 1)
            ELSE kl_divergence_z,
      l |-> TSum(kl(Normal(r.ql_m, r.ql_v), Normal(local_l_mean, local_l_var), "kl_l"), 1)]

\* return reconst_loss + kl_divergence_l, kl_divergence
ForwardReturnAllInFirst(reconst_loss, kls) ==
  <<TAdd(TAdd(reconst_loss, kls.l), kls.z), kls.z>>
ForwardReturn(reconst_loss, kls) == <<TAdd(reconst_loss, kls.l), kls.z>>

AnyBad(shapes) == \E i \in DOMAIN shapes : shapes[i] = BadShape

VAE_forward_return(inf, kls, rec) ==
  IF AnyBad(<<kls.z.shape, kls.l.shape>>) THEN Raise("RuntimeError", inf.calls)
  ELSE IF rec.exc # "none" THEN Raise(rec.exc, inf.calls \o rec.calls)
  ELSE IF AnyBad(<<rec.ret.shape, TAdd(rec.ret, kls.l).shape>>)
  THEN Raise("RuntimeError", inf.calls \o rec.calls)
  ELSE [Ok(ForwardReturn(rec.ret, kls), inf.calls \o rec.calls)
          EXCEPT !.locals = <<rec.ret, kls.z, kls.l>>]

VAE_forward_losses(s, x, local_l_mean, local_l_var, inf) ==
  IF inf.exc # "none" THEN inf
  ELSE VAE_forward_return(inf, KLTerms(s, inf.ret, local_l_mean, local_l_var),
          VAE_reconstruction_loss(s, x, inf.ret.px_rate, inf.ret.px_r, inf.ret.px_dropout))

VAE_forward(s, x, local_l_mean, local_l_var, batch_index, y, a) ==
  VAE_forward_losses(s, x, local_l_mean, local_l_var,
                     inference(s, x, batch_index, y, 1, a))

\* torch.manual_seed(42), the first statement of LogNormalPoissonVAE.forward
ForwardSeed == <<Call("torch.manual_seed", "", <<42>>)>>

LogNormalPoissonVAE_forward_return(inf, kls, rec) ==
  IF AnyBad(<<kls.z.shape, kls.l.shape>>)
  THEN Raise("RuntimeError", ForwardSeed \o inf.calls)
  ELSE IF rec.exc # "none" THEN Raise(rec.exc, ForwardSeed \o inf.calls \o rec.calls)
  ELSE IF TAdd(rec.ret, kls.l).shape = BadShape
  THEN Raise("RuntimeError", ForwardSeed \o inf.calls \o rec.calls)
  ELSE [Ok(ForwardReturn(rec.ret, kls), ForwardSeed \o inf.calls \o rec.calls)
          EXCEPT !.locals = <<rec.ret, kls.z, kls.l>>]

LogNormalPoissonVAE_forward_losses(s, x, local_l_mean, local_l_var, inf) ==
  IF inf.exc # "none" THEN Raise(inf.exc, ForwardSeed \o inf.calls)
  ELSE LogNormalPoissonVAE_forward_return(inf,
          KLTerms(s, inf.ret, local_l_mean, local_l_var),
          LogNormalPoissonVAE_reconstruction_loss(x, inf.ret.px_rate))

LogNormalPoissonVAE_forward(s, x, local_l_mean, local_l_var, batch_index, y) ==
  LogNormalPoissonVAE_forward_losses(s, x, local_l_mean, local_l_var,
                                     inference(s, x, batch_index, y, 1, 0))

forward(s, x, local_l_mean, local_l_var, batch_index, y, a) ==
  IF s.cls = "LogNormalPoissonVAE"
  THEN LogNormalPoissonVAE_forward(s, x, local_l_mean, local_l_var, batch_index, y)
  ELSE VAE_forward(s, x, local_l_mean, local_l_var, batch_index, y, a)

\* (forward keeps reconst_loss, kl_divergence_z and kl_divergence_l in locals)

\* the shape assertion of ratio_loss and its return; locals keeps the five
\* log-probability terms as they are when the assertion is evaluated
VAE_ratio_loss_return(calls, log_px_zl, log_pl, log_pz, log_qz_x, log_ql_x) ==
  IF AnyBad(<<log_px_zl.shape, log_pl.shape, log_pz.shape, log_qz_x.shape,
              log_ql_x.shape>>)
  THEN Raise("RuntimeError", calls)
  ELSE IF ~(/\ log_px_zl.shape = log_pl.shape
            /\ log_pl.shape = log_pz.shape
            /\ log_pz.shape = log_qz_x.shape
            /\ log_qz_x.shape = log_ql_x.shape)
  THEN [Raise("AssertionError", calls)
          EXCEPT !.locals = <<log_px_zl, log_pl, log_pz, log_qz_x, log_ql_x>>]
  ELSE [Ok(TNeg(TSum(TSub(TSub(TAdd(TAdd(log_px_zl, log_pz), log_pl), log_qz_x),
                          log_ql_x), 0)), calls)
          EXCEPT !.locals = <<log_px_zl, log_pl, log_pz, log_qz_x, log_ql_x>>]

\* if log_pz.dim() == 2 and log_qz_x.dim() == 2: sum both over dim 1
VAE_ratio_loss_reduce(calls, rec, log_pl, log_pz, log_qz_x, log_ql_x) ==
  IF rec.exc # "none" THEN Raise(rec.exc, calls)
  ELSE IF Len(log_pz.shape) = 2 /\ Len(log_qz_x.shape) = 2
  THEN VAE_ratio_loss_return(calls, TNeg(rec.ret), log_pl, TSum(log_pz, 1),
                             TSum(log_qz_x, 1), log_ql_x)
  ELSE VAE_ratio_loss_return(calls, TNeg(rec.ret), log_pl, log_pz, log_qz_x, log_ql_x)

VAE_ratio_loss_terms(s, local_l_mean, local_l_var, inf, prior, rec) ==
  IF inf.exc # "none" THEN inf
  ELSE VAE_ratio_loss_reduce(inf.calls \o rec.calls, rec,
         TSum(LogProb(Normal(local_l_mean, local_l_var), inf.ret.library, "log_pl"), -1),
         TSum(LogProb(z_distrib(s, prior.mean, prior.scale), inf.ret.z, "log_pz"), -1),
         TSum(LogProb(z_distrib(s, inf.ret.qz_m, inf.ret.qz_v), inf.ret.z, "log_qz_x"), -1),
         TSum(LogProb(Normal(inf.ret.ql_m, inf.ret.ql_v), inf.ret.library, "log_ql_x"), -1))

VAE_ratio_loss_losses(s, x, local_l_mean, local_l_var, inf) ==
  IF inf.exc # "none" THEN inf
  ELSE VAE_ratio_loss_terms(s, local_l_mean, local_l_var, inf, get_prior_params(s),
          VAE_reconstruction_loss(s, x, inf.ret.px_rate, inf.ret.px_r, inf.ret.px_dropout))

VAE_ratio_loss(s, x, local_l_mean, local_l_var, batch_index, y, a) ==
  VAE_ratio_loss_losses(s, x, local_l_mean, local_l_var,
                        inference(s, x, batch_index, y, 1, a))

\* return log_pz + log_px_z - log_qz_x
VAE_get_log_ratio_return(calls, rec, log_pz, log_qz_x) ==
  IF rec.exc # "none" THEN Raise(rec.exc, calls)
  ELSE IF AnyBad(<<rec.ret.shape, log_pz.shape, log_qz_x.shape,
                   TSub(TAdd(log_pz, rec.ret), log_qz_x).shape>>)
  THEN Raise("RuntimeError", calls)
  ELSE Ok(TSub(TAdd(log_pz, rec.ret), log_qz_x), calls)

VAE_get_log_ratio_terms(inf, rec) ==
  VAE_get_log_ratio_return(inf.calls \o rec.calls, rec,
     TSum(LogProb(Normal(T(inf.ret.qz_m.shape, <<"zeros">>),
                         T(inf.ret.qz_v.shape, <<"ones">>)), inf.ret.z, "log_pz"), -1),
     TSum(LogProb(Normal(inf.ret.qz_m, inf.ret.qz_v), inf.ret.z, "log_qz_x"), -1))

VAE_get_log_ratio_losses(s, x, inf) ==
  IF inf.exc # "none" THEN inf
  ELSE VAE_get_log_ratio_terms(inf,
          VAE_reconstruction_loss(s, x, inf.ret.px_rate, inf.ret.px_r, inf.ret.px_dropout))

VAE_get_log_ratio(s, x, batch_index, y, n_samples, a) ==
  VAE_get_log_ratio_losses(s, x, inference(s, x, batch_index, y, n_samples, a))

get_log_ratio(s, x, batch_index, y, n_samples, a) ==
  IF s.cls = "LogNormalPoissonVAE" THEN Raise("NotImplementedError", <<>>)
  ELSE VAE_get_log_ratio(s, x, batch_index, y, n_samples, a)

\* ------------------------------------------------------------ extraction
\* self.inference(...)[0] and [2]
First(inf) == IF inf.exc # "none" THEN inf ELSE Ok(inf.ret.px_scale, inf.calls)
Third(inf) == IF inf.exc # "none" THEN inf ELSE Ok(inf.ret.px_rate, inf.calls)

get_sample_scale(s, x, batch_index, y, n_samples, a) ==
  IF s.cls = "LogNormalPoissonVAE" THEN Raise("NotImplementedError", <<>>)
  ELSE First(inference(s, x, batch_index, y, n_samples, a))

get_sample_rate_inherited(s, x, batch_index, y, n_samples, a) ==
  Third(inference(s, x, batch_index, y, n_samples, a))
get_sample_rate(s, x, batch_index, y, n_samples, a) ==
  IF s.cls = "LogNormalPoissonVAE" THEN Raise("NotImplementedError", <<>>)
  ELSE Third(inference(s, x, batch_index, y, n_samples, a))

sample_from_posterior_z(s, x, y, give_mean) ==
  LET x_ == IF s.log_variational THEN Log1p(x) ELSE x
      qz == EncoderForward("z_encoder", x_, s.n_latent, s.z_full_cov)
  IN Ok(IF give_mean THEN qz.m ELSE qz.s, <<Call("z_encoder", "", <<x_, y>>)>>)

sample_from_posterior_l(s, x) ==
  LET x_ == IF s.log_variational THEN Log1p(x) ELSE x
      ql == EncoderForward("l_encoder", x_, 1, FALSE)
  IN Ok(ql.s, <<Call("l_encoder", "", <<x_>>)>>)

InList(r) == Ok(<<r.ret>>, r.calls)
get_latents(s, x, y) == InList(sample_from_posterior_z(s, x, y, FALSE))

scale_from_z(s, sample_batch, fixed_batch) ==
  IF s.cls = "LogNormalPoissonVAE" THEN Raise("NotImplementedError", <<>>)
  ELSE LET x_ == IF s.log_variational THEN Log1p(sample_batch) ELSE sample_batch
           qz == EncoderForward("z_encoder", x_, s.n_latent, s.z_full_cov)
           B == x_.shape[1]
           batch_index == IndexTensor(B, [c \in 1..B |-> fixed_batch])
           library == T(<<B, 1>>, <<"4.0">>)
           dec == DecoderSCVI("gene", qz.s, library, batch_index, None, 0)
       IN Ok(dec.px_scale,
             <<Call("z_encoder", "", <<x_>>),
               Call("decoder", "gene", <<qz.s, library, batch_index>>)>>)

\* ------------------------------------------------------- parameter lists
RECURSIVE FilterSeq(_, _)
FilterSeq(q, keep) ==
  IF Len(q) = 0 THEN <<>>
  ELSE (IF Head(q) \in keep THEN <<Head(q)>> ELSE <<>>) \o FilterSeq(Tail(q), keep)

RECURSIVE Concat(_)
Concat(qs) == IF Len(qs) = 0 THEN <<>> ELSE Head(qs) \o Concat(Tail(qs))

\* get_list_params(*params): the parameters that require gradients
get_list_params(s, params) ==
  Concat([i \in DOMAIN params |-> FilterSeq(params[i], AllParams \ s.frozen)])

encoder_params(s) ==
  Ok(get_list_params(s, <<z_encoder_parameters, l_encoder_parameters>>), <<>>)

decoder_params(s) ==
  IF s.px_r.k = "noattr" THEN Raise("AttributeError", <<>>)
  ELSE Ok(get_list_params(s, <<decoder_parameters>>) \o <<"px_r">>, <<>>)

\* LDVAE.get_loadings: the parameters of the decoder's factor regressor
get_loadings(s) == Ok(<<"decoder.weight">>, <<>>)

\* -------------------------------------------------------- global generator
DefaultSeed == 0
CallerSeeds == {7}

IsDraw(fn) == fn \in {"z_encoder", "l_encoder", "z_encoder.sample", "l_encoder.sample"}

\* the global generator after the calls of one method, in order
RECURSIVE AfterCalls(_, _)
AfterCalls(g, calls) ==
  IF Len(calls) = 0 THEN g
  ELSE LET c == Head(calls)
           g1 == IF c.fn = "torch.manual_seed"
                 THEN [seed |-> c.args[1], advanced |-> FALSE]
                 ELSE IF IsDraw(c.fn) THEN [g EXCEPT !.advanced = TRUE]
                 ELSE g
       IN AfterCalls(g1, Tail(calls))

\* ---------------------------------------------------------------- state
NoCall == [op |-> "__init__", args |-> <<>>, exc |-> "none", ret |-> None,
           calls |-> <<>>, locals |-> <<>>]

Init ==
  /\ self \in Models
  /\ rng = [seed |-> DefaultSeed, advanced |-> FALSE]
  /\ cudnn_benchmark = TRUE
  /\ last = NoCall

\* inputs of a call on a minibatch of B cells: the batch indices and the
\* labels vary where the dispersion mode reads them, the network's raw
\* dispersion output where the model has such a network
BatchIndices(B) ==
  IF self.dispersion = "gene-batch"
  THEN {IndexTensor(B, idx) : idx \in [1..B -> 0..(NBatch - 1)]}
  ELSE {IndexTensor(B, [c \in 1..B |-> 0])}
Labels(B) ==
  IF self.dispersion = "gene-label"
  THEN {IndexTensor(B, idx) : idx \in [1..B -> 0..(NLabels - 1)]}
  ELSE {None}
NetDraws ==
  IF self.dispersion = "gene-cell" \/ self.cls = "MeanVarianceVAE" THEN RawVals ELSE {0}
SomeLabels(B) ==
  IF self.dispersion = "gene-label" THEN {IndexTensor(B, [c \in 1..B |-> 0])} ELSE {None}

\* a call starts when the caller holds no result, and leaves its result
Done(op, args, res) ==
  /\ last.op = "__init__"
  /\ last' = [op |-> op, args |-> args, exc |-> res.exc, ret |-> res.ret,
              calls |-> res.calls, locals |-> res.locals]
  /\ rng' = AfterCalls(rng, res.calls)
  /\ UNCHANGED <<self, cudnn_benchmark>>

Inference ==
  \E B \in BatchSizes, n \in SampleCounts, a \in NetDraws :
  \E bi \in BatchIndices(B), y \in Labels(B) :
    Done("inference", [B |-> B, batch_index |-> bi, y |-> y, n_samples |-> n, a |-> a],
         inference(self, Counts(B), bi, y, n, a))

Forward ==
  \E B \in BatchSizes, a \in NetDraws :
  \E bi \in BatchIndices(B), y \in Labels(B) :
    Done("forward", [B |-> B, batch_index |-> bi, y |-> y, n_samples |-> 1, a |-> a],
         forward(self, Counts(B), LocalMean(B), LocalVar(B), bi, y, a))

RatioLoss ==
  /\ self.cls # "LogNormalPoissonVAE"
  /\ \E B \in BatchSizes, a \in NetDraws :
     \E bi \in BatchIndices(B), y \in Labels(B) :
       Done("ratio_loss", [B |-> B, batch_index |-> bi, y |-> y, n_samples |-> 1, a |-> a],
            VAE_ratio_loss(self, Counts(B), LocalMean(B), LocalVar(B), bi, y, a))

GetLogRatio ==
  \E B \in BatchSizes, n \in SampleCounts, a \in NetDraws :
  \E bi \in BatchIndices(B), y \in Labels(B) :
    Done("get_log_ratio", [B |-> B, batch_index |-> bi, y |-> y, n_samples |-> n, a |-> a],
         get_log_ratio(self, Counts(B), bi, y, n, a))

GetSampleScale ==
  \E B \in BatchSizes, n \in SampleCounts :
  \E y \in SomeLabels(B) :
    LET bi == IndexTensor(B, [c \in 1..B |-> 0]) IN
    Done("get_sample_scale", [B |-> B, batch_index |-> bi, y |-> y, n_samples |-> n, a |-> 0],
         get_sample_scale(self, Counts(B), bi, y, n, 0))

GetSampleRate ==
  \E B \in BatchSizes, n \in SampleCounts :
  \E y \in SomeLabels(B) :
    LET bi == IndexTensor(B, [c \in 1..B |-> 0]) IN
    Done("get_sample_rate", [B |-> B, batch_index |-> bi, y |-> y, n_samples |-> n, a |-> 0],
         get_sample_rate(self, Counts(B), bi, y, n, 0))

ScaleFromZ ==
  \E B \in BatchSizes, fixed_batch \in 0..(NBatch - 1) :
    Done("scale_from_z", [B |-> B, fixed_batch |-> fixed_batch],
         scale_from_z(self, Counts(B), fixed_batch))

SampleFromPosteriorZ ==
  \E B \in BatchSizes, give_mean \in BOOLEAN :
    Done("sample_from_posterior_z", [B |-> B, give_mean |-> give_mean],
         sample_from_posterior_z(self, Counts(B), None, give_mean))

SampleFromPosteriorL ==
  \E B \in BatchSizes :
    Done("sample_from_posterior_l", [B |-> B], sample_from_posterior_l(self, Counts(B)))

GetLatents ==
  \E B \in BatchSizes :
    Done("get_latents", [B |-> B], get_latents(self, Counts(B), None))

GetPriorParams ==
  Done("get_prior_params", <<>>, Ok(get_prior_params(self), <<>>))

EncoderParams ==
  /\ self.cls # "LogNormalPoissonVAE"
  /\ Done("encoder_params", <<>>, encoder_params(self))

DecoderParams ==
  /\ self.cls # "LogNormalPoissonVAE"
  /\ Done("decoder_params", <<>>, decoder_params(self))

GetLoadings ==
  /\ self.cls = "LDVAE"
  /\ Done("get_loadings", <<>>, get_loadings(self))

\* the caller takes the result of the call and is ready for the next call
Return ==
  /\ last.op # "__init__"
  /\ last' = NoCall
  /\ UNCHANGED <<self, rng, cudnn_benchmark>>

\* the caller seeds the global generator (torch.manual_seed in its own code)
CallerSeed ==
  \E seed \in CallerSeeds :
    /\ rng' = [seed |-> seed, advanced |-> FALSE]
    /\ UNCHANGED <<self, cudnn_benchmark, last>>

\* the caller switches requires_grad off on some parameters
SetRequiresGrad ==
  \E f \in FrozenChoices :
    /\ f # self.frozen
    /\ self' = [self EXCEPT !.frozen = IF self.px_r.k = "noattr" THEN f \ {"px_r"} ELSE f]
    /\ self'.frozen # self.frozen
    /\ UNCHANGED <<rng, cudnn_benchmark, last>>

Next ==
  \/ Inference
  \/ Forward
  \/ RatioLoss
  \/ GetLogRatio
  \/ GetSampleScale
  \/ GetSampleRate
  \/ ScaleFromZ
  \/ SampleFromPosteriorZ
  \/ SampleFromPosteriorL
  \/ GetLatents
  \/ GetPriorParams
  \/ EncoderParams
  \/ DecoderParams
  \/ GetLoadings
  \/ Return

\* the methods of one model instance, called in any order
Spec == Init /\ [][Next]_vars

\* the same with the caller's own use of the global generator and of
\* requires_grad, on one model of each class and dispersion mode
ModelsEnv ==
  {VAE__init__("VAE", d, TRUE, "zinb", FALSE, 0) : d \in Dispersions}
  \cup {LDVAE__init__(d, TRUE, "zinb", 0) : d \in Dispersions}
  \cup {MeanVarianceVAE__init__(TRUE, "zinb", FALSE, 0),
        LogNormalPoissonVAE__init__(TRUE, FALSE, FALSE)}

InitEnv ==
  /\ self \in ModelsEnv
  /\ rng = [seed |-> DefaultSeed, advanced |-> FALSE]
  /\ cudnn_benchmark = TRUE
  /\ last = NoCall

NextEnv ==
  \/ Next
  \/ CallerSeed
  \/ SetRequiresGrad

SpecEnv == InitEnv /\ [][NextEnv]_vars

\* ====================================================================
\* Properties
\* ====================================================================
Returned == last.exc = "none"
ReturnedNothing == last.exc # "none" /\ last.ret = None
CalledFns == {last.calls[i].fn : i \in DOMAIN last.calls}
IsVAEFamily == self.cls \in {"VAE", "LDVAE", "MeanVarianceVAE"}
\* the step is a method call: the caller held no result and now holds one
MethodCall == last.op = "__init__" /\ last'.op # "__init__"

\* C1: inference with n_samples > 1 on a full-covariance model raises
\* AssertionError, returns nothing and has not called the decoder; with
\* n_samples <= 1 or a diagonal covariance it never raises AssertionError.
C1_FullCovAssertion ==
  last.op = "inference" =>
    IF last.args.n_samples > 1 /\ self.z_full_cov
    THEN /\ last.exc = "AssertionError"
         /\ ReturnedNothing
         /\ "decoder" \notin CalledFns
    ELSE last.exc # "AssertionError"

C1_Witness ==
  /\ last.op = "inference"
  /\ last.args.n_samples > 1
  /\ self.z_full_cov
  /\ last.exc = "AssertionError"

\* C2: on a LogNormalPoissonVAE, get_sample_scale, get_sample_rate,
\* get_log_ratio and scale_from_z raise NotImplementedError for every
\* argument, call neither encoder nor decoder and change no state; its other
\* public operations never raise NotImplementedError.
NotImplementedOps == {"get_sample_scale", "get_sample_rate", "get_log_ratio", "scale_from_z"}
C2_Step ==
  (MethodCall /\ self.cls = "LogNormalPoissonVAE") =>
    IF last'.op \in NotImplementedOps
    THEN /\ last'.exc = "NotImplementedError"
         /\ Len(last'.calls) = 0
         /\ self' = self
         /\ rng' = rng
         /\ cudnn_benchmark' = cudnn_benchmark
    ELSE last'.exc # "NotImplementedError"
C2_NotImplemented == [][C2_Step]_vars

C2_Witness ==
  /\ self.cls = "LogNormalPoissonVAE"
  /\ last.op = "get_sample_rate"
  /\ last.args.n_samples > 1
  /\ last.exc = "NotImplementedError"

\* C3: the dispersion px_r returned by inference, and the one passed to the
\* reconstruction loss by forward, ratio_loss and get_log_ratio, is strictly
\* positive in every entry, in every dispersion mode and for VAE, LDVAE and
\* MeanVarianceVAE.
AllPositive(t) == \A e \in Entries(t.v, Len(t.shape)) : e > 0
LikelihoodCalls == {"log_zinb_positive", "log_nb_positive"}
C3_DispersionPositive ==
  /\ (last.op = "inference" /\ IsVAEFamily /\ Returned) => AllPositive(last.ret.px_r)
  /\ last.op \in {"forward", "ratio_loss", "get_log_ratio"} =>
       \A i \in DOMAIN last.calls :
         last.calls[i].fn \in LikelihoodCalls => AllPositive(last.calls[i].args[3])

HasNegative(t) == \E e \in Entries(t.v, Len(t.shape)) : e < 0
C3_Witness ==
  /\ last.op = "forward"
  /\ self.dispersion = "gene-batch"
  /\ HasNegative(self.px_r)
  /\ \E i \in DOMAIN last.calls : last.calls[i].fn \in LikelihoodCalls

\* C4: in VAE.inference the raw dispersion is chosen by the configured mode
\* alone: the per-gene vector ('gene'), the column of the parameter selected
\* by each cell's batch index ('gene-batch') or label ('gene-label'), or the
\* decoder's own dispersion output ('gene-cell'); the decoder is called with
\* the configured mode, and no step changes the mode.
ExpectedDispersion(s, args) ==
  IF s.dispersion = "gene"
  THEN T(<<NInput>>, [g \in 1..NInput |-> Exp(s.px_r.v[g])])
  ELSE IF s.dispersion = "gene-batch"
  THEN T(<<args.B, NInput>>,
         [c \in 1..args.B |-> [g \in 1..NInput |->
            Exp(s.px_r.v[g][args.batch_index.v[c][1] + 1])]])
  ELSE IF s.dispersion = "gene-label"
  THEN T(<<args.B, NInput>>,
         [c \in 1..args.B |-> [g \in 1..NInput |->
            Exp(s.px_r.v[g][args.y.v[c][1] + 1])]])
  ELSE LET lead == IF args.n_samples > 1 THEN <<args.n_samples>> ELSE <<>>
       IN T(lead \o <<args.B, NInput>>,
            Nest(lead, [c \in 1..args.B |-> [g \in 1..NInput |->
               Exp(RawPattern(args.a, c, g))]]))
C4_Step ==
  /\ self'.dispersion = self.dispersion
  /\ (MethodCall /\ last'.op = "inference" /\ self.cls \in {"VAE", "LDVAE"}
      /\ last'.exc = "none") =>
       /\ last'.ret.px_r = ExpectedDispersion(self, last'.args)
       /\ \E i \in DOMAIN last'.calls :
            last'.calls[i].fn = "decoder" /\ last'.calls[i].mode = self.dispersion
C4_DispersionByMode == [][C4_Step]_vars

C4_Witness ==
  /\ last.op = "inference"
  /\ self.cls = "VAE"
  /\ self.dispersion = "gene-batch"
  /\ Returned
  /\ last.args.B > 1
  /\ last.args.batch_index.v[1] # last.args.batch_index.v[2]

\* C5: every forward call on B cells that returns has a reconstruction loss,
\* a latent KL term and a library KL term of shape (B,) each, and returns two
\* tensors of shape (B,), with a diagonal and with a full latent covariance.
C5_ForwardShapes ==
  (last.op = "forward" /\ Returned) =>
    /\ \A i \in 1..3 : last.locals[i].shape = <<last.args.B>>
    /\ last.ret[1].shape = <<last.args.B>>
    /\ last.ret[2].shape = <<last.args.B>>

C5_Witness ==
  /\ last.op = "forward"
  /\ Returned
  /\ self.z_full_cov
  /\ self.cls = "VAE"
  /\ last.args.B > 1

\* C6 (as claimed): in ratio_loss the five log-probability terms have
\* identical shapes when they are combined, so the shape assertion never
\* fails, with a diagonal and with a full latent covariance.
C6_RatioShapesAgree ==
  last.op = "ratio_loss" => last.exc # "AssertionError"

\* C7: forward returns (reconstruction negative log-likelihood + library KL,
\* latent KL): the latent KL is not in the first element, the library KL is
\* not in the second; the likelihood is the configured one.
C7_ForwardReturn ==
  (last.op = "forward" /\ Returned) =>
    /\ last.ret[1].v = LFAdd(LFNeg(LFTerm("log_px")), LFTerm("kl_l"))
    /\ last.ret[2].v = LFTerm("kl_z")
    /\ (self.reconstruction_loss = "zinb" => "log_zinb_positive" \in CalledFns)
    /\ (self.reconstruction_loss = "nb" => "log_nb_positive" \in CalledFns)
    /\ (self.cls = "LogNormalPoissonVAE" => "Poisson.log_prob" \in CalledFns)

C7_Witness ==
  /\ last.op = "forward"
  /\ Returned
  /\ self.reconstruction_loss = "nb"

\* C8 (as claimed): no method call sets the seed of the global generator.
C8_Step == MethodCall => rng'.seed = rng.seed
C8_NoMethodSeeds == [][C8_Step]_vars

\* C9 (as claimed): get_log_ratio returns log_pz + log_px_z - log_qz_x with
\* the log-likelihood log_px_z entering with a positive sign.
C9_LogRatio ==
  (last.op = "get_log_ratio" /\ Returned) =>
    last.ret.v = LFSub(LFAdd(LFTerm("log_pz"), LFTerm("log_px")), LFTerm("log_qz_x"))

\* C10 (as claimed): decoder_params and encoder_params raise no error in any
\* of the four dispersion modes and list exactly the parameters that require
\* gradients: the decoder's then px_r, the latent encoder's then the library
\* encoder's.
Learnable(q) == FilterSeq(q, AllParams \ self.frozen)
C10_ParamLists ==
  /\ last.op = "decoder_params" =>
       /\ Returned
       /\ last.ret = Learnable(decoder_parameters \o <<"px_r">>)
  /\ last.op = "encoder_params" =>
       /\ Returned
       /\ last.ret = Learnable(z_encoder_parameters \o l_encoder_parameters)

\* C11 (as claimed): sample_from_posterior_z returns the latent encoder's
\* posterior mean when give_mean is true and its drawn sample otherwise;
\* get_latents returns a one-element list holding that drawn sample;
\* sample_from_posterior_l returns the means of the library-size posterior.
EncoderInput(B) == IF self.log_variational THEN Log1p(Counts(B)) ELSE Counts(B)
LatentPosterior(B) ==
  EncoderForward("z_encoder", EncoderInput(B), self.n_latent, self.z_full_cov)
LibraryPosterior(B) == EncoderForward("l_encoder", EncoderInput(B), 1, FALSE)
C11_PosteriorSampling ==
  /\ last.op = "sample_from_posterior_z" =>
       /\ Returned
       /\ last.ret = IF last.args.give_mean THEN LatentPosterior(last.args.B).m
                     ELSE LatentPosterior(last.args.B).s
  /\ last.op = "get_latents" =>
       /\ Returned
       /\ last.ret = <<LatentPosterior(last.args.B).s>>
  /\ last.op = "sample_from_posterior_l" =>
       /\ Returned
       /\ last.ret = LibraryPosterior(last.args.B).m

\* C12: the encoders receive log(1 + x) exactly when log_variational is true,
\* in inference, sample_from_posterior_z, sample_from_posterior_l and
\* scale_from_z (and in the methods that call inference); the reconstruction
\* likelihood of forward, ratio_loss and get_log_ratio is evaluated against
\* the caller's untransformed counts, which no method modifies.
EncoderOps ==
  {"inference", "sample_from_posterior_z", "sample_from_posterior_l",
   "scale_from_z", "get_latents", "get_sample_scale", "get_sample_rate"}
LossOps == {"forward", "ratio_loss", "get_log_ratio"}
EncoderFns == {"z_encoder", "l_encoder"}
ExpectedEncoderInput(B) ==
  T(<<B, NInput>>, IF self.log_variational THEN <<"log1p", "x">> ELSE <<"x">>)
UntransformedCounts(B) == T(<<B, NInput>>, <<"x">>)
C12_LogVariational ==
  (last.op \in EncoderOps \cup LossOps /\ last.exc # "NotImplementedError") =>
    /\ \E i \in DOMAIN last.calls : last.calls[i].fn \in EncoderFns
    /\ \A i \in DOMAIN last.calls :
         /\ last.calls[i].fn \in EncoderFns =>
              last.calls[i].args[1] = ExpectedEncoderInput(last.args.B)
         /\ last.calls[i].fn \in LikelihoodCalls =>
              last.calls[i].args[1] = UntransformedCounts(last.args.B)
         /\ last.calls[i].fn = "Poisson.log_prob" =>
              last.calls[i].args[2] = UntransformedCounts(last.args.B)
    /\ (last.op \in LossOps /\ Returned) =>
         \E i \in DOMAIN last.calls :
           last.calls[i].fn \in LikelihoodCalls \cup {"Poisson.log_prob"}

C12_Witness ==
  /\ last.op = "forward"
  /\ Returned
  /\ self.log_variational
  /\ self.cls = "VAE"
  /\ last.args.B > 1

\* C13: inference with n_samples > 1 on a diagonal-covariance model returns
\* the four posterior moments with a new leading dimension of length
\* n_samples, each slice the encoder's single output, and a latent code and a
\* library size drawn again from the broadcast moments, with the same leading
\* dimension; with n_samples <= 1 (0 and negative values included) it returns
\* the encoders' own moments and samples, with no dimension added.
Expanded(t, n) == T(<<n>> \o t.shape, <<"expand">> \o t.v)
C13_Broadcast ==
  (last.op = "inference" /\ Returned) =>
    LET n == last.args.n_samples
        qz == LatentPosterior(last.args.B)
        ql == LibraryPosterior(last.args.B)
        r == last.ret
    IN IF n > 1
       THEN /\ ~self.z_full_cov
            /\ r.qz_m = Expanded(qz.m, n)
            /\ r.qz_v = Expanded(qz.v, n)
            /\ r.ql_m = Expanded(ql.m, n)
            /\ r.ql_v = Expanded(ql.v, n)
            /\ r.z = EncoderSample("z_encoder", r.qz_m, r.qz_v)
            /\ r.library = EncoderSample("l_encoder", r.ql_m, r.ql_v)
            /\ r.z.shape = <<n, last.args.B, self.n_latent>>
            /\ r.library.shape = <<n, last.args.B, 1>>
            /\ Call("z_encoder.sample", "", <<r.qz_m, r.qz_v>>) \in
                 {last.calls[i] : i \in DOMAIN last.calls}
            /\ Call("l_encoder.sample", "", <<r.ql_m, r.ql_v>>) \in
                 {last.calls[i] : i \in DOMAIN last.calls}
       ELSE /\ r.qz_m = qz.m
            /\ r.qz_v = qz.v
            /\ r.z = qz.s
            /\ r.ql_m = ql.m
            /\ r.ql_v = ql.v
            /\ r.library = ql.s
            /\ \A i \in DOMAIN last.calls :
                 last.calls[i].fn \notin {"z_encoder.sample", "l_encoder.sample"}

C13_Witness ==
  /\ last.op = "inference"
  /\ Returned
  /\ last.args.n_samples > 1
  /\ ~self.z_full_cov
  /\ self.cls = "LogNormalPoissonVAE"
  /\ last.args.B > 1

\* C14: a VAE built with a reconstruction_loss other than 'zinb' or 'nb' is
\* constructed; its sample_from_posterior_z and sample_from_posterior_l calls
\* return, its inference, get_sample_scale and get_sample_rate calls return
\* unless n_samples > 1 on a full-covariance model, where they raise the
\* AssertionError of every such model; forward, ratio_loss and get_log_ratio
\* raise an error on every call and never evaluate a likelihood. With 'zinb'
\* the likelihood is evaluated with the dropout parameter, with 'nb' without.
HasLossString == self.cls \in {"VAE", "LDVAE", "MeanVarianceVAE"}
UnknownLoss == HasLossString /\ self.reconstruction_loss \notin {"zinb", "nb"}
InferenceOps == {"inference", "get_sample_scale", "get_sample_rate"}
PosteriorOps == {"sample_from_posterior_z", "sample_from_posterior_l"}
LossFails ==
  (UnknownLoss /\ last.op \in LossOps) =>
    /\ last.exc \in {"UnboundLocalError", "AssertionError"}
    /\ \A i \in DOMAIN last.calls : last.calls[i].fn \notin LikelihoodCalls
DropoutUse ==
  (HasLossString /\ last.op \in LossOps /\ Returned) =>
    \E i \in DOMAIN last.calls :
      /\ last.calls[i].fn = IF self.reconstruction_loss = "zinb"
                            THEN "log_zinb_positive" ELSE "log_nb_positive"
      /\ Len(last.calls[i].args) = IF self.reconstruction_loss = "zinb" THEN 4 ELSE 3
      /\ last.calls[i].args[2].v[1] = "px_rate"
      /\ self.reconstruction_loss = "zinb" => last.calls[i].args[4].v[1] = "px_dropout"
C14_NoValidation ==
  /\ (UnknownLoss /\ last.op \in PosteriorOps) => Returned
  /\ (UnknownLoss /\ last.op \in InferenceOps) =>
       IF last.args.n_samples > 1 /\ self.z_full_cov
       THEN last.exc = "AssertionError"
       ELSE Returned
  /\ LossFails
  /\ DropoutUse

C14_Witness ==
  /\ UnknownLoss
  /\ last.op = "forward"
  /\ last.exc = "UnboundLocalError"
  /\ self.cls = "VAE"

\* C14 (as claimed): with an unknown reconstruction_loss every inference,
\* get_sample_scale, get_sample_rate and sample_from_posterior_* call succeeds.
C14_AsClaimed ==
  /\ (UnknownLoss /\ last.op \in PosteriorOps \cup InferenceOps) => Returned
  /\ (UnknownLoss /\ last.op \in LossOps) => last.exc # "none"

====
